---- MODULE Spec2Model ----
(***************************************************************************)
(* Model of hevcbulkgpu.py: the encoder capability prober (test_encoder,   *)
(* detect_working_encoders) and the GUI controller VideoConverterApp with  *)
(* its background batch worker (select_folder, start_conversion,           *)
(* update_progress, convert_all, convert_video).                           *)
(*                                                                         *)
(* Two specifications share the module:                                    *)
(*   SpecProbe  the prober run over the whole encoder registry, while the  *)
(*              GUI does not exist yet;                                    *)
(*   Spec       the GUI after construction (the probe result is drawn in   *)
(*              Init), the Tk main thread's handlers and the worker        *)
(*              threads started by start_conversion.                       *)
(* Strings are TLA+ strings; TLC evaluates Len, \o and SubSeq on them.     *)
(***************************************************************************)
EXTENDS Integers, Sequences, FiniteSets, TLC

VARIABLES
    \* ---- prober (module level functions) ----
    p_pc,           \* position inside detect_working_encoders / test_encoder
    p_vi,           \* index of the vendor being probed (dict iteration order)
    p_ei,           \* index of the candidate within the vendor's list
    working,        \* local list `working` of detect_working_encoders
    available,      \* local dict `available` of detect_working_encoders
    tmp_made,       \* the current call's temporary file was created
    tmp_exists,     \* the current call's temporary file is still on disk
    run,            \* outcome of subprocess.run in the current call
    retval,         \* value returned by the current test_encoder call
    probed,         \* encoder -> value its test_encoder call returned
    \* ---- VideoConverterApp ----
    alive,          \* the root window was not destroyed in __init__
    vendor_encoder_map,
    folder, files, encoder, output_format,
    encoder_var, format_var,
    progress_bar,   \* progress_bar["value"]
    convert_btn,    \* state of the Start Conversion button
    made_dirs,      \* directories created by os.makedirs
    mainpc,         \* position of the Tk main thread inside select_folder
    threads,        \* the convert_all threads started so far
    event           \* "start_conversion" right after that handler ran,
                    \* "other" after any other step

probeVars == <<p_pc, p_vi, p_ei, working, available, tmp_made, tmp_exists,
               run, retval, probed>>
appVars == <<alive, vendor_encoder_map, folder, files, encoder, output_format,
             encoder_var, format_var, progress_bar,
             convert_btn, made_dirs, mainpc, threads, event>>
vars == <<probeVars, appVars>>

\* Number of convert_all threads a behaviour may start.
MaxBatches == 2

-----------------------------------------------------------------------------
(* String helpers: the Python string operations the program uses.          *)

Char(s, i) == SubSeq(s, i, i)

UpperLetters == "ABCDEFGHIJKLMNOPQRSTUVWXYZ"
LowerLetters == "abcdefghijklmnopqrstuvwxyz"

\* str.lower() on one character
LowerChar(c) ==
    IF \E i \in 1..Len(UpperLetters) : Char(UpperLetters, i) = c
    THEN LET i == CHOOSE j \in 1..Len(UpperLetters) : Char(UpperLetters, j) = c
         IN  Char(LowerLetters, i)
    ELSE c

RECURSIVE Lower(_)
Lower(s) == IF Len(s) = 0 THEN "" ELSE LowerChar(Char(s, 1)) \o Lower(Tail(s))

\* str.endswith(suffix)
EndsWith(s, suf) ==
    Len(s) >= Len(suf) /\ SubSeq(s, Len(s) - Len(suf) + 1, Len(s)) = suf

\* `sub in s`
Contains(s, sub) ==
    \E i \in 1..(Len(s) - Len(sub) + 1) : SubSeq(s, i, i + Len(sub) - 1) = sub

\* os.path.join of two components (the second one is never absolute here)
PathJoin(a, b) ==
    IF Len(a) = 0 \/ EndsWith(a, "/") THEN a \o b ELSE a \o "/" \o b

\* os.path.splitext on a bare file name: split at the last dot unless the
\* name has only leading dots before it
SplitExt(p) ==
    LET dots == {i \in 1..Len(p) : Char(p, i) = "."}
    IN  IF dots = {} THEN <<p, "">>
        ELSE LET d == CHOOSE i \in dots : \A j \in dots : j <= i
             IN  IF \E k \in 1..(d - 1) : Char(p, k) # "."
                 THEN <<SubSeq(p, 1, d - 1), SubSeq(p, d, Len(p))>>
                 ELSE <<p, "">>

VIDEO_EXTENSIONS == <<".mp4", ".mov", ".mkv", ".avi", ".webm">>

\* f.lower().endswith(VIDEO_EXTENSIONS)
IsVideo(f) ==
    \E i \in 1..Len(VIDEO_EXTENSIONS) : EndsWith(Lower(f), VIDEO_EXTENSIONS[i])

-----------------------------------------------------------------------------
(* Encoder registry and prober.                                            *)

VendorOrder ==
    <<"Intel QSV", "NVIDIA NVENC", "AMD AMF", "VAAPI", "VideoToolbox">>

encoder_tests ==
    [v \in {VendorOrder[i] : i \in 1..Len(VendorOrder)} |->
        CASE v = "Intel QSV"    -> <<"h264_qsv", "hevc_qsv">>
          [] v = "NVIDIA NVENC" -> <<"h264_nvenc", "hevc_nvenc", "av1_nvenc">>
          [] v = "AMD AMF"      -> <<"h264_amf", "hevc_amf">>
          [] v = "VAAPI"        -> <<"h264_vaapi", "hevc_vaapi">>
          [] v = "VideoToolbox" -> <<"h264_videotoolbox", "hevc_videotoolbox">>]

Vendors == DOMAIN encoder_tests
Range(s) == {s[i] : i \in 1..Len(s)}
AllEncoders == UNION {Range(encoder_tests[v]) : v \in Vendors}

\* Diagnostic texts the encoder binary may write to stderr.
StderrSamples == {"", "frame=1", "Error opening encoder", "error: x", "Erro"}

\* return "Error" not in result.stderr and result.returncode == 0
ProbeVerdict(stderr, returncode) ==
    ~Contains(stderr, "Error") /\ returncode = 0

\* if test_encoder(enc): working.append(enc)
AppendWorking(w, enc, res) == IF res THEN Append(w, enc) ELSE w

\* Variant of StoreVendor without the `if working:` test.
StoreVendorMut(av, vendor, w) ==
    [x \in DOMAIN av \cup {vendor} |-> IF x = vendor THEN w ELSE av[x]]

\* if working: available[vendor] = working
StoreVendor(av, vendor, w) ==
    IF w # <<>> THEN [x \in DOMAIN av \cup {vendor} |->
                          IF x = vendor THEN w ELSE av[x]]
    ELSE av

EmptyDict == [x \in {} |-> <<>>]
NoRun == [kind |-> "none"]

\* Value of every GUI variable while the application object does not exist.
AppAbsent ==
    /\ alive = FALSE
    /\ vendor_encoder_map = EmptyDict
    /\ folder = "" /\ files = <<>> /\ encoder = "" /\ output_format = ".mp4"
    /\ encoder_var = "" /\ format_var = ""
    /\ progress_bar = 0
    /\ convert_btn = "none" /\ made_dirs = {}
    /\ mainpc = "idle" /\ threads = <<>> /\ event = "other"

CurVendor == VendorOrder[p_vi]
CurEncoder == encoder_tests[CurVendor][p_ei]

\* State before the first test_encoder call of detect_working_encoders.
InitProbe ==
    /\ p_pc = "call" /\ p_vi = 1 /\ p_ei = 1
    /\ working = <<>> /\ available = EmptyDict
    /\ tmp_made = FALSE /\ tmp_exists = FALSE
    /\ run = NoRun /\ retval = FALSE
    /\ probed = [e \in {} |-> FALSE]
    /\ AppAbsent

\* tempfile.NamedTemporaryFile(delete=False): the file is created, or the
\* call raises and the bare except returns False.
T_CreateTmp ==
    /\ p_pc = "call"
    /\ \/ /\ tmp_made' = TRUE /\ tmp_exists' = TRUE
          /\ p_pc' = "run"
          /\ UNCHANGED retval
       \/ /\ retval' = FALSE
          /\ p_pc' = "ret"
          /\ UNCHANGED <<tmp_made, tmp_exists>>
    /\ UNCHANGED <<p_vi, p_ei, working, available, run, probed, appVars>>

\* subprocess.run(cmd, capture_output=True, text=True): the binary runs and
\* exits, or the invocation raises and the bare except returns False.
T_Run ==
    /\ p_pc = "run"
    /\ \/ \E rc \in {0, 1}, s \in StderrSamples :
             /\ run' = [kind |-> "exited", returncode |-> rc, stderr |-> s]
             /\ p_pc' = "remove"
             /\ UNCHANGED retval
       \/ /\ run' = [kind |-> "raised"]
          /\ retval' = FALSE
          /\ p_pc' = "ret"
    /\ UNCHANGED <<p_vi, p_ei, working, available, tmp_made, tmp_exists,
                   probed, appVars>>

\* os.remove(tmp_path) followed by the return statement; when os.remove
\* raises, the bare except returns False and the file stays.
T_Remove ==
    /\ p_pc = "remove"
    /\ \/ /\ tmp_exists' = FALSE
          /\ retval' = ProbeVerdict(run.stderr, run.returncode)
       \/ /\ retval' = FALSE
          /\ UNCHANGED tmp_exists
    /\ p_pc' = "ret"
    /\ UNCHANGED <<p_vi, p_ei, working, available, tmp_made, run, probed,
                   appVars>>

\* Back in detect_working_encoders: use the returned value, go to the next
\* candidate, and store the vendor after its last candidate.
D_Next ==
    /\ p_pc = "ret"
    /\ retval' = FALSE
    /\ LET w2 == AppendWorking(working, CurEncoder, retval)
           lastEnc == p_ei = Len(encoder_tests[CurVendor])
           lastVendor == p_vi = Len(VendorOrder)
       IN  /\ probed' = [e \in DOMAIN probed \cup {CurEncoder} |->
                            IF e = CurEncoder THEN retval ELSE probed[e]]
           /\ IF ~lastEnc
              THEN /\ working' = w2
                   /\ p_ei' = p_ei + 1
                   /\ p_pc' = "call"
                   /\ UNCHANGED <<available, p_vi>>
              ELSE /\ available' = StoreVendor(available, CurVendor, w2)
                   /\ working' = <<>>
                   /\ IF lastVendor
                      THEN p_pc' = "done" /\ UNCHANGED <<p_vi, p_ei>>
                      ELSE p_pc' = "call" /\ p_vi' = p_vi + 1 /\ p_ei' = 1
    /\ tmp_made' = FALSE /\ tmp_exists' = FALSE /\ run' = NoRun
    /\ UNCHANGED appVars

NextProbe == T_CreateTmp \/ T_Run \/ T_Remove \/ D_Next

SpecProbe == InitProbe /\ [][NextProbe]_vars

-----------------------------------------------------------------------------
(* detect_working_encoders as a function of the test_encoder results.      *)

\* for enc in encoders: if test_encoder(enc): working.append(enc)
RECURSIVE WorkingFrom(_, _, _, _)
WorkingFrom(encs, ok, i, w) ==
    IF i > Len(encs) THEN w
    ELSE WorkingFrom(encs, ok, i + 1, AppendWorking(w, encs[i], ok[encs[i]]))

\* for vendor, encoders in encoder_tests.items(): ...
RECURSIVE DetectFrom(_, _, _)
DetectFrom(ok, vi, av) ==
    IF vi > Len(VendorOrder) THEN av
    ELSE LET v == VendorOrder[vi]
         IN  DetectFrom(ok, vi + 1,
                 StoreVendor(av, v, WorkingFrom(encoder_tests[v], ok, 1, <<>>)))

detect_working_encoders(ok) == DetectFrom(ok, 1, EmptyDict)

\* all_encs = [enc for encs in self.vendor_encoder_map.values() for enc in encs]
RECURSIVE AllEncsFrom(_, _)
AllEncsFrom(m, vi) ==
    IF vi > Len(VendorOrder) THEN <<>>
    ELSE (IF VendorOrder[vi] \in DOMAIN m THEN m[VendorOrder[vi]] ELSE <<>>)
         \o AllEncsFrom(m, vi + 1)

all_encs == AllEncsFrom(vendor_encoder_map, 1)

-----------------------------------------------------------------------------
(* Environment of the GUI: what the dialogs and the file system answer.    *)

\* Sets of encoders that work on the machine, as drawn at start-up.
ProbeOutcomes == {{}, {"h264_qsv", "hevc_nvenc"}}

\* Answers of filedialog.askdirectory(); "" is a cancelled dialog.
FolderChoices == {"", "/a", "/e"}

\* os.listdir(folder)
ListDir(d) ==
    CASE d = "/a" -> <<"clip.MP4", "notes.txt", "clip.mov">>
      [] d = "/e" -> <<"notes.txt", "mp4">>
      [] OTHER    -> <<>>

\* [f for f in os.listdir(self.folder) if f.lower().endswith(VIDEO_EXTENSIONS)]
VideoFiles(d) == SelectSeq(ListDir(d), IsVideo)

OutputFormats == <<".mp4", ".mkv", ".webm">>

\* Entries of the format combobox the operator picks in the model.
FormatChoices == {".mp4"}

-----------------------------------------------------------------------------
(* VideoConverterApp.                                                      *)

\* State after VideoConverterApp.__init__ (and create_widgets when at least
\* one encoder works; otherwise the root window is destroyed).
Init ==
    /\ \E W \in ProbeOutcomes :
          /\ probed = [e \in AllEncoders |-> e \in W]
          /\ vendor_encoder_map = detect_working_encoders(probed)
    /\ available = vendor_encoder_map
    /\ p_pc = "done" /\ p_vi = Len(VendorOrder)
    /\ p_ei = Len(encoder_tests[VendorOrder[Len(VendorOrder)]])
    /\ working = <<>> /\ tmp_made = FALSE /\ tmp_exists = FALSE
    /\ run = NoRun /\ retval = FALSE
    /\ alive = (vendor_encoder_map # EmptyDict)
    /\ folder = "" /\ files = <<>> /\ encoder = "" /\ output_format = ".mp4"
    /\ encoder_var = (IF alive THEN all_encs[1] ELSE "")
    /\ format_var = (IF alive THEN ".mp4" ELSE "")
    /\ progress_bar = 0
    /\ convert_btn = (IF alive THEN "normal" ELSE "none")
    /\ made_dirs = {}
    /\ mainpc = "idle" /\ threads = <<>> /\ event = "other"

\* The main thread is in the Tk main loop, ready to run a handler.
MainIdle == alive /\ mainpc = "idle"

\* self.folder = filedialog.askdirectory()
SelectFolder(d) ==
    /\ MainIdle
    /\ folder' = d
    /\ mainpc' = (IF d # "" THEN "listing" ELSE "idle")
    /\ event' = "other"
    /\ UNCHANGED <<probeVars, alive, vendor_encoder_map, files, encoder,
                   output_format, encoder_var, format_var, progress_bar,
                   convert_btn, made_dirs, threads>>

\* if self.folder: self.files = [...]; messagebox.showinfo("Found Files", ...)
\* os.listdir releases the interpreter lock, so worker steps may come between
\* the assignment of self.folder and this one.
SelectFolderList ==
    /\ alive /\ mainpc = "listing"
    /\ files' = VideoFiles(folder)
    /\ mainpc' = "idle"
    /\ event' = "other"
    /\ UNCHANGED <<probeVars, alive, vendor_encoder_map, folder, encoder,
                   output_format, encoder_var, format_var, progress_bar,
                   convert_btn, made_dirs, threads>>

\* The operator picks an entry of the encoder combobox.
ChooseEncoder(e) ==
    /\ MainIdle
    /\ e \in Range(all_encs)
    /\ encoder_var' = e
    /\ event' = "other"
    /\ UNCHANGED <<probeVars, alive, vendor_encoder_map, folder, files,
                   encoder, output_format, format_var, progress_bar,
                   convert_btn, made_dirs, mainpc,
                   threads>>

\* The operator picks an entry of the output format combobox.
ChooseFormat(f) ==
    /\ MainIdle
    /\ f \in Range(OutputFormats)
    /\ f \in FormatChoices
    /\ format_var' = f
    /\ event' = "other"
    /\ UNCHANGED <<probeVars, alive, vendor_encoder_map, folder, files,
                   encoder, output_format, encoder_var, progress_bar,
                   convert_btn, made_dirs, mainpc,
                   threads>>

\* Variant of StartRejected that forgets the empty file list.
StartRejectedMut == folder = ""

\* if not self.folder or not self.files: (warning) return
StartRejected == folder = "" \/ files = <<>>

\* output_dir = os.path.join(self.folder, "converted")
OutputDir == PathJoin(folder, "converted")

\* Variant of BtnAfterStart that leaves the button enabled.
BtnAfterStartMut == "normal"

\* self.convert_btn.config(state=tk.DISABLED)
BtnAfterStart == "disabled"

\* threading.Thread(target=self.convert_all, args=(output_dir,)).start()
NewThread(output_dir) ==
    [pc |-> "begin", output_dir |-> output_dir, list |-> <<>>, idx |-> 0,
     completed |-> 0, input |-> "", returncode |-> 0, jobs |-> <<>>,
     reports |-> <<>>, done |-> 0]

\* Click on Start Conversion; Tk runs the command only while the button is
\* enabled.
StartConversion ==
    /\ MainIdle
    /\ convert_btn = "normal"
    /\ event' = "start_conversion"
    /\ IF StartRejected
       THEN /\ UNCHANGED <<encoder, output_format, made_dirs, progress_bar,
                           convert_btn, threads>>
       ELSE /\ Len(threads) < MaxBatches
            /\ encoder' = encoder_var
            /\ output_format' = format_var
            /\ made_dirs' = made_dirs \cup {OutputDir}
            /\ progress_bar' = 0
            /\ convert_btn' = BtnAfterStart
            /\ threads' = Append(threads, NewThread(OutputDir))
    /\ UNCHANGED <<probeVars, alive, vendor_encoder_map, folder, files,
                   encoder_var, format_var, mainpc>>

\* int((completed / total) * 100); the float product is exact enough for the
\* totals of the modelled folders to agree with integer division.
Percent(completed, total) == (completed * 100) \div total

\* base_name + "_" + self.encoder + self.output_format, under output_dir
OutputPath(output_dir, filename) ==
    PathJoin(output_dir, SplitExt(filename)[1] \o "_" \o encoder \o output_format)

ThreadIds == 1..Len(threads)
SetThread(i, t) == [threads EXCEPT ![i] = t]

workerFrame == <<probeVars, alive, vendor_encoder_map, folder, files, encoder,
                 output_format, encoder_var, format_var, made_dirs, mainpc>>

\* completed = 0; for filename in self.files: the iterator keeps the list
\* object self.files names when the thread reaches the loop.
W_Begin(i) ==
    /\ threads[i].pc = "begin"
    /\ threads' = SetThread(i, [threads[i] EXCEPT !.pc = "loop", !.list = files])
    /\ event' = "other"
    /\ UNCHANGED <<workerFrame, progress_bar, convert_btn>>

\* One iteration up to subprocess.run in convert_video: the child is
\* started, or the invocation raises and the exception ends the thread.
W_Launch(i) ==
    /\ threads[i].pc = "loop"
    /\ threads[i].idx < Len(threads[i].list)
    /\ LET t == threads[i]
           filename == t.list[t.idx + 1]
           input_path == PathJoin(folder, filename)
           output_path == OutputPath(t.output_dir, filename)
       IN  \/ threads' = SetThread(i, [t EXCEPT
                  !.pc = "running",
                  !.input = input_path,
                  !.jobs = Append(@, [output |-> output_path,
                                      status |-> "running"])])
           \/ threads' = SetThread(i, [t EXCEPT
                  !.pc = "dead",
                  !.input = input_path,
                  !.jobs = Append(@, [output |-> output_path,
                                      status |-> "raised"])])
    /\ event' = "other"
    /\ UNCHANGED <<workerFrame, progress_bar, convert_btn>>

\* The child exits (its return code is not looked at); completed += 1;
\* self.update_progress(completed), which divides by len(self.files).
W_Exit(i, rc) ==
    /\ threads[i].pc = "running"
    /\ LET t == threads[i]
           n == Len(t.jobs)
           completed == t.completed + 1
           total == Len(files)
           t2 == [t EXCEPT !.jobs[n].status = "exited",
                           !.returncode = rc,
                           !.input = "",
                           !.completed = completed,
                           !.reports = Append(@, completed)]
       IN  IF total = 0
           THEN /\ threads' = SetThread(i, [t2 EXCEPT !.pc = "dead"])
                /\ UNCHANGED progress_bar
           ELSE /\ threads' = SetThread(i, [t2 EXCEPT !.pc = "loop",
                                                      !.idx = @ + 1])
                /\ progress_bar' = Percent(completed, total)
    /\ event' = "other"
    /\ UNCHANGED <<workerFrame, convert_btn>>

\* After the loop: self.convert_btn.config(state=tk.NORMAL)
W_Enable(i) ==
    /\ threads[i].pc = "loop"
    /\ threads[i].idx = Len(threads[i].list)
    /\ convert_btn' = "normal"
    /\ threads' = SetThread(i, [threads[i] EXCEPT !.pc = "notify"])
    /\ event' = "other"
    /\ UNCHANGED <<workerFrame, progress_bar>>

\* messagebox.showinfo("Done", ...); the thread ends.
W_Notify(i) ==
    /\ threads[i].pc = "notify"
    /\ threads' = SetThread(i, [threads[i] EXCEPT !.pc = "finished",
                                                  !.done = @ + 1])
    /\ event' = "other"
    /\ UNCHANGED <<workerFrame, progress_bar, convert_btn>>

Next ==
    \/ \E d \in FolderChoices : SelectFolder(d)
    \/ SelectFolderList
    \/ \E e \in AllEncoders : ChooseEncoder(e)
    \/ \E f \in FormatChoices : ChooseFormat(f)
    \/ StartConversion
    \/ \E i \in ThreadIds : W_Begin(i)
    \/ \E i \in ThreadIds : W_Launch(i)
    \/ \E i \in ThreadIds, rc \in {0, 1} : W_Exit(i, rc)
    \/ \E i \in ThreadIds : W_Enable(i)
    \/ \E i \in ThreadIds : W_Notify(i)

Spec == Init /\ [][Next]_vars

-----------------------------------------------------------------------------
(* Properties of the prober, checked under SpecProbe.                      *)

ProbedOk(e) == probed[e]
ProcessedVendors ==
    {VendorOrder[k] : k \in 1..(IF p_pc = "done" THEN Len(VendorOrder)
                                ELSE p_vi - 1)}

\* C4: the mapping built by detect_working_encoders holds a vendor key if and
\* only if at least one candidate of that vendor probed successful, and the
\* vendor's value is exactly the subsequence of its successful candidates in
\* registry order.
C4_AvailableIsWorkingSubsequence ==
    /\ DOMAIN available =
          {v \in ProcessedVendors :
              \E k \in 1..Len(encoder_tests[v]) : probed[encoder_tests[v][k]]}
    /\ \A v \in DOMAIN available :
          available[v] = SelectSeq(encoder_tests[v], ProbedOk)

\* C4 witness: the probe is over, one vendor is kept with a proper
\* subsequence of its candidates and another vendor is omitted.
C4_Witness ==
    /\ p_pc = "done"
    /\ "Intel QSV" \notin DOMAIN available
    /\ "NVIDIA NVENC" \in DOMAIN available
    /\ available["NVIDIA NVENC"] = <<"h264_nvenc", "av1_nvenc">>

\* C5: whenever the encoder subprocess was invoked and exited, test_encoder
\* returns True exactly when the exit status is zero and stderr does not
\* contain "Error", whether or not deleting the temporary file succeeded.
C5_VerdictIndependentOfRemove ==
    (p_pc = "ret" /\ run.kind = "exited")
        => (retval = (run.returncode = 0 /\ ~Contains(run.stderr, "Error")))

\* C10: when test_encoder returns, a temporary file it created has been
\* deleted, for every outcome of the probe.
C10_NoTempFileLeft ==
    (p_pc = "ret" /\ tmp_made) => ~tmp_exists

-----------------------------------------------------------------------------
(* Properties of the batch worker and the GUI, checked under Spec.         *)

Ended(t) == t.pc \in {"finished", "dead"}
LeftLoop(t) == t.pc \in {"notify", "finished", "dead"}
InBatch(t) == t.pc \in {"begin", "loop", "running"}

\* C1: in convert_all, when the conversion of a file fails (the subprocess
\* exits non-zero or the invocation raises), the remaining files are still
\* attempted and no error leaves the worker.
C1_FailureNeverHaltsBatch ==
    \A i \in ThreadIds :
        LET t == threads[i]
            n == Len(t.jobs)
        IN  (LeftLoop(t) /\ n > 0 /\
             (t.jobs[n].status = "raised" \/ t.returncode # 0))
                => (n = Len(t.list) /\ t.jobs[n].status # "raised")

\* C2: a batch over a non-empty list of N files calls update_progress exactly
\* N times, with the completed counts 1, 2, ..., N in that order.
C2_ProgressCountsOneToN ==
    \A i \in ThreadIds :
        LET t == threads[i]
        IN  /\ \A k \in 1..Len(t.reports) : t.reports[k] = k
            /\ (LeftLoop(t) /\ Len(t.list) > 0)
                  => Len(t.reports) = Len(t.list)

\* C3: every started batch delivers its batch-complete signal exactly once,
\* after the progress update of the last file: a worker thread that has
\* ended has shown "Done" once, and never before its last progress update.
C3_DoneSignalOnce ==
    \A i \in ThreadIds :
        LET t == threads[i]
        IN  /\ t.done <= 1
            /\ t.done = 1 => Len(t.reports) = Len(t.list)
            /\ Ended(t) => t.done = 1

\* C6: while a batch is running, no action changes self.folder or self.files.
C6_FolderAndFilesFrozenDuringBatch ==
    [][(\E i \in ThreadIds : InBatch(threads[i]))
          => (folder' = folder /\ files' = files)]_vars

\* C7: a start_conversion request made while no folder is selected or the
\* file list is empty starts no thread, creates no directory and leaves
\* encoder, output format, progress and the button state unchanged.
C7_RejectedStartChangesNothing ==
    [][(event' = "start_conversion" /\ (folder = "" \/ files = <<>>))
          => UNCHANGED <<threads, made_dirs, encoder, output_format,
                         progress_bar, convert_btn, folder, files>>]_vars

\* C7 witness: start_conversion has just been rejected after a cancelled
\* dialog that followed a successful folder selection.
C7_Witness ==
    /\ event = "start_conversion"
    /\ folder = "" /\ files # <<>>
    /\ threads = <<>> /\ made_dirs = {}

\* C8: the output paths convert_all derives for two distinct files of one
\* batch are distinct.
C8_OutputPathsDistinct ==
    \A i \in ThreadIds :
        \A j, k \in 1..Len(threads[i].jobs) :
            j # k => threads[i].jobs[j].output # threads[i].jobs[k].output

\* C9 as stated: at most one convert_all thread exists at any time.
C9_AtMostOneWorkerThread ==
    Cardinality({i \in ThreadIds : ~Ended(threads[i])}) <= 1

\* C9 as amended: at most one worker is between its start and the statement
\* that re-enables the button, the button is disabled during that span, and
\* at most one conversion subprocess is in flight.
C9_ConversionsNeverOverlap ==
    /\ Cardinality({i \in ThreadIds : InBatch(threads[i])}) <= 1
    /\ (\E i \in ThreadIds : InBatch(threads[i])) => convert_btn = "disabled"
    /\ Cardinality({i \in ThreadIds : threads[i].pc = "running"}) <= 1

\* C9 witness: a second batch has a conversion in flight while the first
\* worker has re-enabled the button and is about to show "Done".
C9_Witness ==
    /\ Len(threads) >= 2
    /\ threads[1].pc = "notify"
    /\ threads[2].pc = "running"

====
